---- MODULE Spec2Model ----
(***************************************************************************)
(* A model of the image-convert repository: the format resolver            *)
(* (OutputFormat), the multi-backend transcoder (ImageConverter), the      *)
(* batch drivers (ConversionWorker.run, convert_images_to_jpg) and the     *)
(* job control of the main window (ImageConverterGUI).                     *)
(*                                                                         *)
(* A Python str is modelled as a sequence of one-character strings, so     *)
(* that str.lower() is an operation on characters and not the identity.    *)
(***************************************************************************)
EXTENDS Integers, Sequences, FiniteSets, TLC

VARIABLES
    \* ---- OutputFormat.from_string / get_extension (one resolution) ----
    f_pc,        \* "input" | "resolved" | "ext"
    f_token,     \* the format token handed to from_string
    f_kind,      \* the OutputFormat member from_string returned
    f_ext,       \* the extension get_extension returned
    \* ---- ImageConverter.convert_single_image (one call) ----
    c_pc,        \* "idle" | "loop" | "returned" | "escaped"
    c_fmt,       \* self.output_format
    c_env,       \* what the libraries can do with this source and destination
    c_methods,   \* the local list `methods` (backend names, in order)
    c_i,         \* index of the next element of `methods` the for loop takes
    c_attempts,  \* history: one record per convert_func call made so far
    c_ret,       \* the returned pair <<success, method_name>>
    c_dest,      \* the destination path now (a member of DestStates)
    c_calls,     \* history: the result and destination of every call returned
    c_files,     \* the file at every path of Paths (a member of DestStates)
    \* ---- one batch job: ConversionWorker.run or convert_images_to_jpg ----
    driver,           \* "worker" (ConversionWorker) | "cli" (convert_images_to_jpg)
    w_pc,             \* "created" | "check" | "file" | "summary" | "done"
    w_fmt,            \* self.output_format
    is_running,       \* self.is_running, the cancellation flag
    total_count,      \* len(all_files); the directory entries left, for the cli
    idx,              \* the enumerate index: loop iterations begun
    total_files,      \* the local counters of the driver
    converted_files,
    failed_files,
    events,           \* the log lines and signals emitted, in order
    w_error,          \* the except clause of run was taken
    stop_at,          \* history: where the worker was when stop() first ran
    same_dir,         \* the target folder is the source folder
    dir_files,        \* the number of files the source folder holds now
    \* ---- ImageConverterGUI: job control of the main window ----
    g_worker,            \* self.worker: 0 for None, else the thread it refers to
    g_threads,           \* every worker thread created so far: its kind and state
    convert_btn,         \* self.convert_btn.isEnabled()
    single_convert_btn,  \* self.single_convert_btn.isEnabled()
    g_queue,             \* finished signals queued for the GUI thread, in order
    g_dialog,            \* the message box shown last
    \* ---- the compositing of one pixel channel over white ----
    px_pc,       \* "input" | "stored"
    px_alpha,    \* img[y, x, 3], the alpha of the pixel
    px_chan,     \* img[y, x, c], one colour channel of the pixel
    px_val,      \* the integer part of the value computed for bg[y, x, c]
    px_out       \* bg[y, x, c] after the store

fmtVars  == <<f_pc, f_token, f_kind, f_ext>>
convVars == <<c_pc, c_fmt, c_env, c_methods, c_i, c_attempts, c_ret, c_dest,
              c_calls, c_files>>
tallyVars == <<total_files, converted_files, failed_files>>
batchVars == <<driver, w_pc, w_fmt, is_running, total_count, idx, tallyVars,
               events, w_error, stop_at, same_dir, dir_files>>
guiVars  == <<g_worker, g_threads, convert_btn, single_convert_btn, g_queue,
              g_dialog>>
pixVars  == <<px_pc, px_alpha, px_chan, px_val, px_out>>
vars     == <<fmtVars, convVars, batchVars, guiVars, pixVars>>

None == "None"

(***************************************************************************)
(* Bounds of the model.                                                    *)
(***************************************************************************)
MaxTokenLen == 3
MaxFiles == 3
MaxJobs == 3
MaxCalls == 2
MaxJobFiles == 2

(***************************************************************************)
(* class OutputFormat(Enum)                                                *)
(***************************************************************************)
OutputFormat == {"JPG", "JPEG", "PNG", "ICO", "WEBP", "BMP", "TIFF"}

\* The characters tokens are built from: the letters of the seven names in
\* both cases, and some characters that are in no name.
LowerLetters == <<"j", "p", "e", "g", "n", "i", "c", "o", "w", "b", "m", "t", "f", "x">>
UpperLetters == <<"J", "P", "E", "G", "N", "I", "C", "O", "W", "B", "M", "T", "F", "X">>
OtherChars   == {".", " ", "2"}
Chars == {LowerLetters[i] : i \in DOMAIN LowerLetters}
            \cup {UpperLetters[i] : i \in DOMAIN UpperLetters} \cup OtherChars

\* str.lower(), one character: an upper-case letter goes to its lower-case
\* letter, every other character stays.
CharLower(c) ==
    IF \E i \in DOMAIN UpperLetters : UpperLetters[i] = c
    THEN LowerLetters[CHOOSE i \in DOMAIN UpperLetters : UpperLetters[i] = c]
    ELSE c

\* str.lower()
str_lower(value) == [i \in 1..Len(value) |-> CharLower(value[i])]

\* The dict `value_map` of from_string.
value_map ==
    (<<"j", "p", "g">>           :> "JPG")  @@
    (<<"j", "p", "e", "g">>      :> "JPEG") @@
    (<<"p", "n", "g">>           :> "PNG")  @@
    (<<"i", "c", "o">>           :> "ICO")  @@
    (<<"w", "e", "b", "p">>      :> "WEBP") @@
    (<<"b", "m", "p">>           :> "BMP")  @@
    (<<"t", "i", "f", "f">>      :> "TIFF")

\* dict.get(key, default)
dict_get(d, key, default) == IF key \in DOMAIN d THEN d[key] ELSE default

\* OutputFormat.from_string with the lookup made on the token as given.
from_string_case_sensitive(value) == dict_get(value_map, value, "JPG")

\* OutputFormat.from_string
from_string(value) == dict_get(value_map, str_lower(value), "JPG")

\* OutputFormat.get_extension with JPEG given an extension of its own.
get_extension_jpeg_own(self) ==
    IF self = "JPG" THEN ".jpg"
    ELSE IF self = "JPEG" THEN ".jpeg"
    ELSE IF self = "PNG" THEN ".png"
    ELSE IF self = "ICO" THEN ".ico"
    ELSE IF self = "WEBP" THEN ".webp"
    ELSE IF self = "BMP" THEN ".bmp"
    ELSE IF self = "TIFF" THEN ".tiff"
    ELSE ".jpg"

\* OutputFormat.get_extension
get_extension(self) ==
    IF self = "JPG" \/ self = "JPEG" THEN ".jpg"
    ELSE IF self = "PNG" THEN ".png"
    ELSE IF self = "ICO" THEN ".ico"
    ELSE IF self = "WEBP" THEN ".webp"
    ELSE IF self = "BMP" THEN ".bmp"
    ELSE IF self = "TIFF" THEN ".tiff"
    ELSE ".jpg"

(***************************************************************************)
(* The tokens from_string is tried on: every spelling of the seven names   *)
(* in mixed case, and every string of at most MaxTokenLen characters over  *)
(* a small alphabet (the empty string, prefixes, permutations).            *)
(***************************************************************************)
CharUpper(c) ==
    IF \E i \in DOMAIN LowerLetters : LowerLetters[i] = c
    THEN UpperLetters[CHOOSE i \in DOMAIN LowerLetters : LowerLetters[i] = c]
    ELSE c

Spellings(w) ==
    { [i \in 1..Len(w) |-> IF up[i] THEN CharUpper(w[i]) ELSE w[i]] :
        up \in [1..Len(w) -> BOOLEAN] }

NameOf(k) == CHOOSE w \in DOMAIN value_map : value_map[w] = k

ShortAlphabet == {"j", "J", "p", "g", "G", ".", "x"}
ShortStrings == UNION { [1..n -> ShortAlphabet] : n \in 0..MaxTokenLen }
Tokens == (UNION { Spellings(NameOf(k)) : k \in OutputFormat }) \cup ShortStrings

(***************************************************************************)
(* class ImageConverter                                                    *)
(*                                                                         *)
(* What a backend does with a source and a destination is decided by the   *)
(* libraries and the file system; the model draws it as an environment:    *)
(*   decodes[b]   b's reader accepts the source file                       *)
(*   encodes[b]   b's writer accepts the decoded image for the target kind *)
(*   destWritable the destination path can be opened for writing           *)
(*   dest         the destination path before the call: "absent", or "old" *)
(*                for a file that is already there                         *)
(*   pil, cv, iio the form the decoded image has in each backend: the mode *)
(*                of the PIL image, the shape of the numpy array           *)
(* A backend body ends in one of three ways: it raises, it returns False,  *)
(* or it returns True.  Its record says how far it got (`stage`), whether  *)
(* the destination file was written (`wrote`), what happened to the        *)
(* destination path (`touch`), whether the image was composited over white *)
(* (`flat`) and whether the image handed to the writer had an alpha        *)
(* channel (`alpha`).                                                      *)
(***************************************************************************)
Backends == {"Pillow", "OpenCV", "imageio"}

PilModes  == {"RGB", "L", "RGBA", "LA", "P", "PA"}
CvShapes  == {"gray", "bgr", "bgra"}
IioShapes == {"gray", "rgb", "rgba", "la"}

\* The environments; the fields of a backend that cannot read the source
\* have one fixed value since nothing depends on them.
Envs ==
    {e \in [decodes : [Backends -> BOOLEAN],
            encodes : [Backends -> BOOLEAN],
            destWritable : BOOLEAN,
            dest : {"absent", "old"},
            pil : PilModes, cv : CvShapes, iio : IioShapes] :
        /\ ~e.decodes["Pillow"]  => (~e.encodes["Pillow"]  /\ e.pil = "RGB")
        /\ ~e.decodes["OpenCV"]  => (~e.encodes["OpenCV"]  /\ e.cv  = "bgr")
        /\ ~e.decodes["imageio"] => (~e.encodes["imageio"] /\ e.iio = "rgb")}

\* The states of the destination path: absent, the file that was there
\* before, a file opened for writing and left incomplete, or the file a
\* backend wrote in full (named by the backend).
DestStates == {"absent", "old", "truncated"} \cup Backends

Raises(stage, touch) ==
    [out |-> "raise", stage |-> stage, wrote |-> FALSE, touch |-> touch,
     flat |-> FALSE, alpha |-> FALSE]
ReturnFalse(stage) ==
    [out |-> "False", stage |-> stage, wrote |-> FALSE, touch |-> "none",
     flat |-> FALSE, alpha |-> FALSE]
ReturnTrue(w, flat, alpha) ==
    [out |-> "True", stage |-> "done", wrote |-> w,
     touch |-> IF w THEN "write" ELSE "none",
     flat |-> flat, alpha |-> (w /\ alpha)]

\* try: <body> except Exception: return False
except_return_False(body) ==
    IF body.out = "raise" THEN [body EXCEPT !.out = "False"] ELSE body

\* The destination opened for writing only if it does not exist yet.
open_for_write_exclusive(env) == env.destWritable /\ env.dest = "absent"

\* The writer opens the destination path for writing: an existing file is
\* opened like a new one.
open_for_write(env) == env.destWritable

\* img.save with a failed open leaving the destination truncated.
pil_save_open_failure_truncates(env, flat, alpha) ==
    IF ~open_for_write(env) THEN Raises("open", "clobber")
    ELSE IF ~env.encodes["Pillow"] THEN Raises("encode", "clobber")
    ELSE ReturnTrue(TRUE, flat, alpha)

\* img.save(target_path, ...): Image.save opens the file, truncating it,
\* then runs the encoder; when the encoder raises, the file is removed if
\* save created it and left truncated if it was there before.
pil_save(env, flat, alpha) ==
    IF ~open_for_write(env) THEN Raises("open", "none")
    ELSE IF ~env.encodes["Pillow"] THEN Raises("encode", "clobber")
    ELSE ReturnTrue(TRUE, flat, alpha)

\* `if img.mode in ('RGBA', 'LA', 'P')`: the image is pasted on a white
\* background; any other mode is converted to RGB as it is.
pil_flattens(mode) == mode \in {"RGBA", "LA", "P"}

\* The modes with an alpha band.
pil_has_alpha(mode) == mode \in {"RGBA", "LA", "PA"}

\* The BMP writer of Pillow takes the modes 1, L, P, RGB and RGBA.
pil_bmp_modes == {"L", "P", "RGB", "RGBA"}

\* The try block of convert_with_pil: Image.open and img.save raise on
\* failure.  Only the JPEG branch changes the image before saving it.
pil_try(fmt, env) ==
    IF ~env.decodes["Pillow"] THEN Raises("decode", "none")
    ELSE LET ext == get_extension(fmt) IN
         IF ext \in {".jpg", ".jpeg"}
         THEN pil_save(env, pil_flattens(env.pil), FALSE)
         ELSE IF ext = ".bmp"
         THEN IF env.pil \in pil_bmp_modes
              THEN pil_save(env, FALSE, pil_has_alpha(env.pil))
              ELSE IF open_for_write(env) THEN Raises("encode", "clobber")
              ELSE Raises("open", "none")
         ELSE IF ext \in {".png", ".ico", ".webp", ".tiff"}
         THEN pil_save(env, FALSE, pil_has_alpha(env.pil))
         ELSE ReturnFalse("unsupported")

convert_with_pil(fmt, env) == except_return_False(pil_try(fmt, env))

\* cv2.imwrite(str(target_path), img, ...): it raises when the image cannot
\* be encoded and returns False, without raising, when the file cannot be
\* written.  The value it returns is discarded and True is returned.
cv_imwrite(env, flat, alpha) ==
    IF ~env.encodes["OpenCV"] THEN Raises("encode", "none")
    ELSE ReturnTrue(open_for_write(env), flat, alpha)

\* The try block of convert_with_opencv: cv2.imread returns None for a file
\* it cannot read.  Only the JPEG branch composites a BGRA image.
opencv_try(fmt, env) ==
    IF ~env.decodes["OpenCV"] THEN ReturnFalse("decode")
    ELSE LET ext == get_extension(fmt) IN
         IF ext \in {".jpg", ".jpeg"}
         THEN cv_imwrite(env, env.cv = "bgra", FALSE)
         ELSE IF ext \in {".png", ".webp", ".bmp", ".tiff"}
         THEN cv_imwrite(env, FALSE, env.cv = "bgra")
         ELSE ReturnFalse("unsupported")

convert_with_opencv(fmt, env) == except_return_False(opencv_try(fmt, env))

\* imageio.v2.imwrite(str(target_path), img, ...): raises on failure.
iio_imwrite(env, flat, alpha) ==
    IF ~open_for_write(env) THEN Raises("open", "none")
    ELSE IF ~env.encodes["imageio"] THEN Raises("encode", "none")
    ELSE ReturnTrue(TRUE, flat, alpha)

\* The try block of convert_with_imageio with BMP and TIFF written too.
imageio_try_writes_bmp_tiff(fmt, env) ==
    IF ~env.decodes["imageio"] THEN Raises("decode", "none")
    ELSE LET ext == get_extension(fmt) IN
         IF ext \in {".jpg", ".jpeg"}
         THEN IF env.iio = "la" THEN Raises("encode", "none")
              ELSE iio_imwrite(env, env.iio = "rgba", FALSE)
         ELSE IF ext \in {".png", ".webp", ".bmp", ".tiff"}
         THEN iio_imwrite(env, FALSE, env.iio \in {"rgba", "la"})
         ELSE ReturnFalse("unsupported")

\* The try block of convert_with_imageio: imread and imwrite raise on
\* failure; BMP, TIFF and ICO fall to the final else.  The JPEG branch
\* composites an array of four channels; an array of two channels (gray
\* with alpha) is handed to the JPEG writer as it is, which rejects it.
imageio_try(fmt, env) ==
    IF ~env.decodes["imageio"] THEN Raises("decode", "none")
    ELSE LET ext == get_extension(fmt) IN
         IF ext \in {".jpg", ".jpeg"}
         THEN IF env.iio = "la" THEN Raises("encode", "none")
              ELSE iio_imwrite(env, env.iio = "rgba", FALSE)
         ELSE IF ext \in {".png", ".webp"}
         THEN iio_imwrite(env, FALSE, env.iio \in {"rgba", "la"})
         ELSE ReturnFalse("unsupported")

convert_with_imageio(fmt, env) == except_return_False(imageio_try(fmt, env))

\* convert_func(file_path, target_path) for the method named `name`.
convert_func(name, fmt, env) ==
    CASE name = "Pillow"  -> convert_with_pil(fmt, env)
      [] name = "OpenCV"  -> convert_with_opencv(fmt, env)
      [] name = "imageio" -> convert_with_imageio(fmt, env)

\* What the try block of a backend did, before its except clause.
backend_try(name, fmt, env) ==
    CASE name = "Pillow"  -> pil_try(fmt, env)
      [] name = "OpenCV"  -> opencv_try(fmt, env)
      [] name = "imageio" -> imageio_try(fmt, env)

\* The destination path after a backend named `name` did `touch` to it.
dest_after(dest, touch, name) ==
    CASE touch = "none"    -> dest
      [] touch = "write"   -> name
      [] touch = "clobber" -> IF dest = "absent" THEN "absent" ELSE "truncated"

\* The paths of the model: file_path, target_path (another path than
\* file_path), the path of a file that is there and a path with no file.
Paths == {"source", "target", "other", "unused"}

\* The files before a conversion whose destination path is `dest`.
InitialFiles(dest) ==
    [p \in Paths |->
        CASE p = "source" -> "old"
          [] p = "target" -> dest
          [] p = "other"  -> "old"
          [] p = "unused" -> "absent"]

\* The writer handed the path of the source.
write_path_is_file_path(file_path, target_path) == file_path

\* The path a backend hands to its writer: str(target_path).
write_path(file_path, target_path) == target_path

\* The environment a backend meets when the destination path is `dest`.
env_at(env, dest) == [env EXCEPT !.dest = dest]

\* The list `methods` with the ICO case left out.
select_methods_no_ico_case(fmt) == <<"Pillow", "OpenCV", "imageio">>

\* The list `methods` with OpenCV put first.
select_methods_opencv_first(fmt) ==
    IF get_extension(fmt) = ".ico" THEN <<"Pillow">>
    ELSE <<"OpenCV", "Pillow", "imageio">>

\* The list `methods` convert_single_image builds.
select_methods(fmt) ==
    IF get_extension(fmt) = ".ico" THEN <<"Pillow">>
    ELSE <<"Pillow", "OpenCV", "imageio">>

\* The body of the for loop with a failure ending the loop.
loop_body_break_on_failure(r) ==
    IF r.out = "raise" THEN "return_fail"
    ELSE IF r.out = "True" THEN "return" ELSE "return_fail"

\* The body of the for loop of convert_single_image, given what the call of
\* convert_func did: `if convert_func(...): return True, method_name`, and
\* `except Exception: continue`.
loop_body(r) ==
    IF r.out = "raise" THEN "continue"
    ELSE IF r.out = "True" THEN "return" ELSE "continue"

\* The for loop of convert_single_image from element i of `methods` on:
\* the pair returned, whether a backend wrote the destination, and the
\* destination path afterwards.
RECURSIVE run_methods(_, _, _, _)
run_methods(methods, i, fmt, env) ==
    IF i > Len(methods)
    THEN [ret |-> <<FALSE, None>>, wrote |-> FALSE, dest |-> env.dest]
    ELSE LET r    == convert_func(methods[i], fmt, env)
             did  == loop_body(r)
             dest == dest_after(env.dest, r.touch, methods[i])
         IN IF did = "return"
            THEN [ret |-> <<TRUE, methods[i]>>, wrote |-> r.wrote, dest |-> dest]
            ELSE IF did = "continue"
            THEN run_methods(methods, i + 1, fmt, env_at(env, dest))
            ELSE [ret |-> <<FALSE, None>>, wrote |-> FALSE, dest |-> dest]

\* ImageConverter.convert_single_image, the whole call.
convert_single_image(fmt, env) == run_methods(select_methods(fmt), 1, fmt, env)

\* The outcomes convert_single_image can have for an output format, over
\* all environments: whether it succeeded, whether the destination path
\* existed before the call, and whether the call left a new file at a path
\* that was absent.
ConversionOutcomes ==
    [fmt \in OutputFormat |->
        {[success |-> convert_single_image(fmt, env).ret[1],
          existed |-> (env.dest # "absent"),
          created |-> (env.dest = "absent"
                       /\ convert_single_image(fmt, env).dest # "absent")] :
            env \in Envs}]

(***************************************************************************)
(* The compositing of a four-channel image over white, for one channel of  *)
(* one pixel:                                                              *)
(*     bg = np.ones(..., dtype=np.uint8) * 255                             *)
(*     alpha = img[:, :, 3] / 255.0                                        *)
(*     bg[:, :, c] = bg[:, :, c] * (1 - alpha) + img[:, :, c] * alpha      *)
(* The right-hand side is a float; the store into the uint8 array drops    *)
(* its fraction and keeps the low eight bits.  The model computes with the *)
(* exact fraction n / 255.  The float differs from it by far less than     *)
(* 1 / 255, so the integer part can differ only where the exact value is   *)
(* an integer, and then by one downwards; alpha 0 and alpha 255 give the   *)
(* floats 0.0 and 1.0 and an exact result.                                 *)
(***************************************************************************)
White    == 255
AlphaMax == 255
Uint8    == 256
Bytes    == 0..(Uint8 - 1)

\* The numerator with the background left unscaled: bg + img * alpha.
blend_numerator_background_unscaled(a, c) == White * AlphaMax + c * a

\* bg * (1 - alpha) + img * alpha, as a numerator over AlphaMax.
blend_numerator(a, c) == White * (AlphaMax - a) + c * a

\* The integer parts the float can have.
blend_integer_parts(a, c) ==
    LET n == blend_numerator(a, c)
        q == n \div AlphaMax
    IN IF a \in {0, AlphaMax} \/ n % AlphaMax # 0 \/ q = 0 THEN {q}
       ELSE {q, q - 1}

\* The store of an integer into an element of a uint8 array.
uint8_store(v) == v % Uint8

(***************************************************************************)
(* app/convert_images.py: the script's own backends (JPG only, no Pillow). *)
(***************************************************************************)
cli_convert_with_opencv(env) ==
    except_return_False(
        IF ~env.decodes["OpenCV"] THEN ReturnFalse("decode")
        ELSE cv_imwrite(env, env.cv = "bgra", FALSE))

cli_convert_with_imageio(env) ==
    except_return_False(
        IF ~env.decodes["imageio"] THEN Raises("decode", "none")
        ELSE IF env.iio = "la" THEN Raises("encode", "none")
        ELSE iio_imwrite(env, env.iio = "rgba", FALSE))

\* convert_single_image of the script, WAND_AVAILABLE being False.
cli_convert_single_image(env) ==
    IF cli_convert_with_opencv(env).out = "True" THEN TRUE
    ELSE cli_convert_with_imageio(env).out = "True"

\* The outcomes the script's convert_single_image can have.
CliOutcomes == {cli_convert_single_image(env) : env \in Envs}

(***************************************************************************)
(* The batch drivers.                                                      *)
(***************************************************************************)
\* The counters after one file with the failure not counted.
count_outcome_failure_dropped(success, converted, failed) ==
    IF success THEN <<converted + 1, failed>> ELSE <<converted, failed>>

\* The counters after one file with a failure counted in both.
count_outcome_failure_in_both(success, converted, failed) ==
    IF success THEN <<converted + 1, failed>> ELSE <<converted + 1, failed + 1>>

\* `converted_files += 1` or `failed_files += 1`: the pair
\* <<converted_files, failed_files>> after one file.
count_outcome(success, converted, failed) ==
    IF success THEN <<converted + 1, failed>> ELSE <<converted, failed + 1>>

\* The cancellation test with the flag never read.
cancel_requested_never(running) == FALSE

\* `if not self.is_running:` at the head of the loop body.
cancel_requested(running) == ~running

\* stop_at before the first call of stop().
NotStopped == [called |-> FALSE, idx |-> 0, pc |-> "created"]

\* The signals and log lines of the worker, as events.
Log(line) == <<line>>

\* progress_signal.emit with the index counted from zero.
Progress_from_zero(current, total) == <<"progress", current - 1, total>>

Progress(current, total) == <<"progress", current, total>>
Finished(total, success, failed) == <<"finished", total, success, failed>>
ErrorSignal == Finished(0, 0, -1)

\* The except clause of run with the completion signal left out.
except_clause_no_signal(evs) == evs \o <<Log("error"), Log("traceback")>>

\* The except clause of run: two log lines and finished_signal.emit(0, 0, -1).
except_clause(evs) == evs \o <<Log("error"), Log("traceback"), ErrorSignal>>

\* The log lines of the summary, then finished_signal.emit.
summary_events(total, converted, failed) ==
    <<Log("summary")>> \o (IF total > 0 THEN <<Log("rate")>> ELSE <<>>)
        \o <<Finished(total, converted, failed)>>

\* The loop test with the source directory read again at every iteration.
all_files_exhausted_live(i, listed, in_dir) == i >= in_dir

\* `for idx, file_path in enumerate(all_files, 1)` has no element left:
\* all_files is the list built before the loop, whatever the directory
\* holds by now.
all_files_exhausted(i, listed, in_dir) == i = listed

\* finished_signal of SingleFileWorker, as an event.
SingleFinished(success, message) ==
    <<"single_finished", IF success THEN "True" ELSE "False", message>>

\* The except clause of SingleFileWorker.run.
single_except_clause(evs) ==
    evs \o <<Log("error"), Log("traceback"), SingleFinished(FALSE, "error")>>

\* The lines and the signal after the conversion in SingleFileWorker.run.
single_result_events(success) ==
    <<Log("rule"), Log(IF success THEN "ok" ELSE "fail"),
      SingleFinished(success, IF success THEN "saved" ELSE "failed"),
      Log("rule")>>

(***************************************************************************)
(* Actions: one resolution of a format token.                              *)
(***************************************************************************)
FromString ==
    /\ f_pc = "input"
    /\ f_kind' = from_string(f_token)
    /\ f_pc' = "resolved"
    /\ UNCHANGED <<f_token, f_ext, convVars, batchVars, guiVars, pixVars>>

GetExtension ==
    /\ f_pc = "resolved"
    /\ f_ext' = get_extension(f_kind)
    /\ f_pc' = "ext"
    /\ UNCHANGED <<f_token, f_kind, convVars, batchVars, guiVars, pixVars>>

(***************************************************************************)
(* Actions: one call of convert_single_image.                              *)
(***************************************************************************)
\* Entry: `methods` is built from the output format.
ConvCall ==
    /\ c_pc = "idle"
    /\ c_methods' = select_methods(c_fmt)
    /\ c_i' = 1
    /\ c_pc' = "loop"
    /\ UNCHANGED <<c_fmt, c_env, c_attempts, c_ret, c_dest, c_calls, c_files,
                   fmtVars, batchVars, guiVars, pixVars>>

\* One iteration of `for method_name, convert_func in methods`.
ConvAttempt ==
    /\ c_pc = "loop"
    /\ c_i <= Len(c_methods)
    /\ LET name == c_methods[c_i]
           env  == env_at(c_env, c_dest)
           r    == convert_func(name, c_fmt, env)
           did  == loop_body(r)
           dest == dest_after(c_dest, r.touch, name)
       IN /\ c_attempts' = Append(c_attempts,
                 [name |-> name,
                  body |-> backend_try(name, c_fmt, env).out,
                  ret  |-> (r.out = "True"),
                  stage |-> r.stage,
                  wrote |-> r.wrote,
                  flat  |-> r.flat,
                  alpha |-> r.alpha,
                  before |-> c_dest])
          /\ c_dest' = dest
          /\ c_files' = IF r.touch = "none" THEN c_files
                        ELSE [c_files EXCEPT ![write_path("source", "target")] =
                                 dest_after(@, r.touch, name)]
          /\ IF did = "return"
             THEN /\ c_ret' = <<TRUE, name>>
                  /\ c_calls' = Append(c_calls, [ret |-> <<TRUE, name>>, dest |-> dest])
                  /\ c_pc' = "returned"
                  /\ c_i' = c_i
             ELSE IF did = "return_fail"
             THEN /\ c_ret' = <<FALSE, None>>
                  /\ c_calls' = Append(c_calls, [ret |-> <<FALSE, None>>, dest |-> dest])
                  /\ c_pc' = "returned"
                  /\ c_i' = c_i
             ELSE IF did = "raise"
             THEN /\ c_ret' = c_ret
                  /\ c_calls' = c_calls
                  /\ c_pc' = "escaped"
                  /\ c_i' = c_i
             ELSE /\ c_ret' = c_ret
                  /\ c_calls' = c_calls
                  /\ c_pc' = "loop"
                  /\ c_i' = c_i + 1
    /\ UNCHANGED <<c_fmt, c_env, c_methods, fmtVars, batchVars, guiVars, pixVars>>

\* The loop is exhausted: `return False, None`.
ConvReturnFalse ==
    /\ c_pc = "loop"
    /\ c_i > Len(c_methods)
    /\ c_ret' = <<FALSE, None>>
    /\ c_calls' = Append(c_calls, [ret |-> <<FALSE, None>>, dest |-> c_dest])
    /\ c_pc' = "returned"
    /\ UNCHANGED <<c_fmt, c_env, c_methods, c_i, c_attempts, c_dest, c_files,
                   fmtVars, batchVars, guiVars, pixVars>>

\* The caller converts the same source to the same target again: the
\* destination path is as the call before left it.
ConvAgain ==
    /\ c_pc = "returned"
    /\ Len(c_calls) < MaxCalls
    /\ c_pc' = "idle"
    /\ c_methods' = <<>> /\ c_i' = 1 /\ c_attempts' = <<>> /\ c_ret' = None
    /\ UNCHANGED <<c_fmt, c_env, c_dest, c_calls, c_files, fmtVars, batchVars, guiVars, pixVars>>

(***************************************************************************)
(* Actions: ConversionWorker.run, one step each, and stop().               *)
(***************************************************************************)
\* run() up to the loop: the header lines, mkdir, the listing of the source
\* directory into all_files.  mkdir and iterdir can raise (the target cannot
\* be created, the source is no directory): the except clause reports it.
WorkerSetup ==
    /\ driver = "worker" /\ w_pc = "created"
    /\ \/ /\ total_count' = dir_files
          /\ events' = events \o <<Log("header"), Log("mkdir")>>
          /\ w_pc' = "check"
          /\ UNCHANGED w_error
       \/ \E made \in BOOLEAN :
            /\ events' = except_clause(
                   events \o <<Log("header")>> \o (IF made THEN <<Log("mkdir")>> ELSE <<>>))
            /\ w_error' = TRUE
            /\ w_pc' = "done"
            /\ UNCHANGED total_count
    /\ UNCHANGED <<driver, w_fmt, is_running, idx, tallyVars, stop_at,
                   same_dir, dir_files, fmtVars, convVars, guiVars, pixVars>>

\* The head of `for idx, file_path in enumerate(all_files, 1)`: the loop
\* ends when all_files is exhausted; otherwise the flag is tested, and the
\* iteration begins with `total_files += 1` or the loop is left.
WorkerLoopHead ==
    /\ driver = "worker" /\ w_pc = "check"
    /\ IF all_files_exhausted(idx, total_count, dir_files)
       THEN /\ w_pc' = "summary"
            /\ UNCHANGED <<idx, total_files, events>>
       ELSE IF cancel_requested(is_running)
       THEN /\ events' = Append(events, Log("cancelled"))
            /\ w_pc' = "summary"
            /\ UNCHANGED <<idx, total_files>>
       ELSE /\ idx' = idx + 1
            /\ total_files' = total_files + 1
            /\ w_pc' = "file"
            /\ UNCHANGED events
    /\ UNCHANGED <<driver, w_fmt, is_running, total_count, converted_files,
                   failed_files, w_error, stop_at, same_dir, dir_files,
                   fmtVars, convVars, guiVars, pixVars>>

\* The rest of the loop body for one file: the test of the target's
\* existence, the conversion, the result line, the counter, the progress
\* signal.  Path.exists() raises on an OSError other than "not found".  A
\* destination file that is new is one more file of the source directory
\* when the target folder is the source folder.
WorkerFile ==
    /\ driver = "worker" /\ w_pc = "file"
    /\ \/ \E known \in BOOLEAN, o \in ConversionOutcomes[w_fmt] :
            LET success == o.success
                counted == count_outcome(success, converted_files, failed_files)
            IN /\ converted_files' = counted[1]
               /\ failed_files' = counted[2]
               /\ events' = events
                     \o (IF o.existed THEN <<Log("overwrite")>> ELSE <<>>)
                     \o (IF known THEN <<>> ELSE <<Log("unknown")>>)
                     \o <<Log(IF success THEN "ok" ELSE "fail")>>
                     \o <<Progress(idx, total_count)>>
               /\ dir_files' = IF same_dir /\ o.created
                               THEN dir_files + 1 ELSE dir_files
               /\ w_pc' = "check"
               /\ UNCHANGED w_error
       \/ /\ events' = except_clause(events)
          /\ w_error' = TRUE
          /\ w_pc' = "done"
          /\ UNCHANGED <<converted_files, failed_files, dir_files>>
    /\ UNCHANGED <<driver, w_fmt, is_running, total_count, idx, total_files,
                   stop_at, same_dir, fmtVars, convVars, guiVars, pixVars>>

\* After the loop: the summary lines and finished_signal.emit.
WorkerSummary ==
    /\ driver = "worker" /\ w_pc = "summary"
    /\ events' = events \o summary_events(total_files, converted_files, failed_files)
    /\ w_pc' = "done"
    /\ UNCHANGED <<driver, w_fmt, is_running, total_count, idx, tallyVars,
                   w_error, stop_at, same_dir, dir_files,
                   fmtVars, convVars, guiVars, pixVars>>

\* A step of ConversionWorker.run.
WorkerStep == WorkerSetup \/ WorkerLoopHead \/ WorkerFile \/ WorkerSummary

\* ConversionWorker.stop(), called from another thread at any moment.
Stop ==
    /\ driver = "worker"
    /\ is_running' = FALSE
    /\ stop_at' = IF stop_at.called THEN stop_at
                  ELSE [called |-> TRUE, idx |-> idx, pc |-> w_pc]
    /\ UNCHANGED <<driver, w_pc, w_fmt, total_count, idx, tallyVars, events,
                   w_error, same_dir, dir_files, fmtVars, convVars, guiVars, pixVars>>

(***************************************************************************)
(* Actions: SingleFileWorker.run.                                          *)
(***************************************************************************)
\* run() up to the conversion: the header lines and mkdir of the target's
\* parent, which can raise.
SingleSetup ==
    /\ driver = "single" /\ w_pc = "created"
    /\ \/ /\ events' = events \o <<Log("header"), Log("mkdir")>>
          /\ w_pc' = "file"
          /\ UNCHANGED w_error
       \/ /\ events' = single_except_clause(events \o <<Log("header")>>)
          /\ w_error' = TRUE
          /\ w_pc' = "done"
    /\ UNCHANGED <<driver, w_fmt, is_running, total_count, idx, tallyVars,
                   stop_at, same_dir, dir_files, fmtVars, convVars, guiVars, pixVars>>

\* The conversion, the result line and finished_signal.emit(success, ...).
SingleConvert ==
    /\ driver = "single" /\ w_pc = "file"
    /\ \E o \in ConversionOutcomes[w_fmt] :
          events' = events \o single_result_events(o.success)
    /\ w_pc' = "done"
    /\ UNCHANGED <<driver, w_fmt, is_running, total_count, idx, tallyVars,
                   w_error, stop_at, same_dir, dir_files,
                   fmtVars, convVars, guiVars, pixVars>>

(***************************************************************************)
(* Actions: convert_images_to_jpg of app/convert_images.py.                *)
(***************************************************************************)
\* The source folder is tested and the target folder made; total_count is
\* the number of entries iterdir will yield.
CliSetup ==
    /\ driver = "cli" /\ w_pc = "created"
    /\ \/ /\ total_count' = dir_files
          /\ events' = Append(events, Log("mkdir"))
          /\ w_pc' = "check"
       \/ /\ events' = Append(events, Log("no_source"))
          /\ w_pc' = "done"
          /\ UNCHANGED total_count
    /\ UNCHANGED <<driver, w_fmt, is_running, idx, tallyVars, w_error, stop_at,
                   same_dir, dir_files, fmtVars, convVars, guiVars, pixVars>>

\* One entry of `for file_path in source_folder.iterdir()`: a regular file
\* is counted and converted, any other entry is passed over.
CliEntry ==
    /\ driver = "cli" /\ w_pc = "check" /\ idx < total_count
    /\ idx' = idx + 1
    /\ \/ \E success \in CliOutcomes :
            LET counted == count_outcome(success, converted_files, failed_files)
            IN /\ total_files' = total_files + 1
               /\ converted_files' = counted[1]
               /\ failed_files' = counted[2]
               /\ events' = Append(events, Log(IF success THEN "ok" ELSE "fail"))
       \/ UNCHANGED <<tallyVars, events>>
    /\ UNCHANGED <<driver, w_pc, w_fmt, is_running, total_count, w_error,
                   stop_at, same_dir, dir_files, fmtVars, convVars, guiVars, pixVars>>

\* The statistics are printed and `failed_files == 0` is returned.
CliSummary ==
    /\ driver = "cli" /\ w_pc = "check" /\ idx = total_count
    /\ events' = Append(events, Log("summary"))
    /\ w_pc' = "done"
    /\ UNCHANGED <<driver, w_fmt, is_running, total_count, idx, tallyVars,
                   w_error, stop_at, same_dir, dir_files,
                   fmtVars, convVars, guiVars, pixVars>>

(***************************************************************************)
(* Actions: ImageConverterGUI and the worker threads it starts.            *)
(* A thread is "running" from start() until it emits its finished signal,  *)
(* "signalled" until run() returns, then "finished"; QThread.isRunning()   *)
(* is true in the first two.  A slot connected to a button runs only when  *)
(* the button is enabled.                                                  *)
(***************************************************************************)
NoThread == [kind |-> "none", st |-> "unborn"]

NumThreads == Cardinality({j \in DOMAIN g_threads : g_threads[j].st # "unborn"})

\* QThread.isRunning()
isRunning(j) == g_threads[j].st \in {"running", "signalled"}

\* `self.worker and self.worker.isRunning()`
worker_busy == g_worker # 0 /\ isRunning(g_worker)

\* self.worker = <Worker>(...); ...connect(...); self.worker.start()
StartWorker(kind) ==
    /\ NumThreads < MaxJobs
    /\ g_threads' = [g_threads EXCEPT ![NumThreads + 1] = [kind |-> kind, st |-> "running"]]
    /\ g_worker' = NumThreads + 1

\* ImageConverterGUI.start_conversion
StartConversion ==
    /\ convert_btn
    /\ \/ /\ worker_busy
          /\ g_dialog' = "busy"
          /\ UNCHANGED <<g_worker, g_threads, convert_btn>>
       \/ /\ ~worker_busy
          /\ g_dialog' = "input_error"
          /\ UNCHANGED <<g_worker, g_threads, convert_btn>>
       \/ /\ ~worker_busy
          /\ convert_btn' = FALSE
          /\ StartWorker("batch")
          /\ UNCHANGED g_dialog
    /\ UNCHANGED <<single_convert_btn, g_queue, fmtVars, convVars, batchVars, pixVars>>

\* ImageConverterGUI.start_single_conversion
StartSingleConversion ==
    /\ single_convert_btn
    /\ \/ /\ g_dialog' = "input_error"
          /\ UNCHANGED <<g_worker, g_threads, single_convert_btn>>
       \/ /\ single_convert_btn' = FALSE
          /\ StartWorker("single")
          /\ UNCHANGED g_dialog
    /\ UNCHANGED <<convert_btn, g_queue, fmtVars, convVars, batchVars, pixVars>>

\* run() of a worker thread up to its finished_signal.emit: the signal is
\* queued for the GUI thread.
ThreadEmitFinished ==
    \E j \in DOMAIN g_threads :
        /\ g_threads[j].st = "running"
        /\ g_threads' = [g_threads EXCEPT ![j].st = "signalled"]
        /\ g_queue' = Append(g_queue, j)
        /\ UNCHANGED <<g_worker, convert_btn, single_convert_btn, g_dialog,
                       fmtVars, convVars, batchVars, pixVars>>

\* run() returns and the thread ends.
ThreadExit ==
    \E j \in DOMAIN g_threads :
        /\ g_threads[j].st = "signalled"
        /\ g_threads' = [g_threads EXCEPT ![j].st = "finished"]
        /\ UNCHANGED <<g_worker, convert_btn, single_convert_btn, g_queue,
                       g_dialog, fmtVars, convVars, batchVars, pixVars>>

\* ImageConverterGUI.conversion_finished, the slot of a batch worker's signal.
ConversionFinished ==
    /\ g_queue # <<>>
    /\ g_threads[Head(g_queue)].kind = "batch"
    /\ convert_btn' = TRUE
    /\ g_dialog' = "batch_result"
    /\ g_queue' = Tail(g_queue)
    /\ UNCHANGED <<g_worker, g_threads, single_convert_btn,
                   fmtVars, convVars, batchVars, pixVars>>

\* ImageConverterGUI.single_conversion_finished
SingleConversionFinished ==
    /\ g_queue # <<>>
    /\ g_threads[Head(g_queue)].kind = "single"
    /\ single_convert_btn' = TRUE
    /\ g_dialog' = "single_result"
    /\ g_queue' = Tail(g_queue)
    /\ UNCHANGED <<g_worker, g_threads, convert_btn,
                   fmtVars, convVars, batchVars, pixVars>>

(***************************************************************************)
(* Actions: the compositing of one channel of one pixel.                   *)
(***************************************************************************)
Flatten ==
    /\ px_pc = "input"
    /\ \E v \in blend_integer_parts(px_alpha, px_chan) :
          /\ px_val' = v
          /\ px_out' = uint8_store(v)
    /\ px_pc' = "stored"
    /\ UNCHANGED <<px_alpha, px_chan, fmtVars, convVars, batchVars, guiVars>>

(***************************************************************************)
(* Specifications.                                                         *)
(***************************************************************************)
FmtIdle ==
    /\ f_pc = "input" /\ f_token = <<>> /\ f_kind = None /\ f_ext = None

ConvIdle ==
    /\ c_pc = "idle" /\ c_fmt = "JPG"
    /\ c_env = [decodes |-> [b \in Backends |-> TRUE],
                encodes |-> [b \in Backends |-> TRUE],
                destWritable |-> TRUE, dest |-> "absent",
                pil |-> "RGB", cv |-> "bgr", iio |-> "rgb"]
    /\ c_methods = <<>> /\ c_i = 1 /\ c_attempts = <<>> /\ c_ret = None
    /\ c_dest = "absent" /\ c_calls = <<>>
    /\ c_files = InitialFiles("absent")

BatchIdle ==
    /\ driver = "worker" /\ w_pc = "created" /\ w_fmt = "JPG"
    /\ is_running = TRUE /\ total_count = 0 /\ idx = 0
    /\ total_files = 0 /\ converted_files = 0 /\ failed_files = 0
    /\ events = <<>> /\ w_error = FALSE /\ stop_at = NotStopped
    /\ same_dir = FALSE /\ dir_files = 0

\* ImageConverterGUI.__init__: no worker, both buttons enabled.
GuiIdle ==
    /\ g_worker = 0
    /\ g_threads = [j \in 1..MaxJobs |-> NoThread]
    /\ convert_btn = TRUE /\ single_convert_btn = TRUE
    /\ g_queue = <<>> /\ g_dialog = "none"

PixIdle ==
    /\ px_pc = "input" /\ px_alpha = 0 /\ px_chan = 0 /\ px_val = 0 /\ px_out = 0

\* The format resolver on every token of Tokens.
InitFormat ==
    /\ f_pc = "input" /\ f_token \in Tokens /\ f_kind = None /\ f_ext = None
    /\ ConvIdle /\ BatchIdle /\ GuiIdle /\ PixIdle

NextFormat == FromString \/ GetExtension

SpecFormat == InitFormat /\ [][NextFormat]_vars

\* convert_single_image for every output format and environment, called
\* up to MaxCalls times in a row on the same source and destination.
InitConv ==
    /\ FmtIdle
    /\ c_pc = "idle" /\ c_fmt \in OutputFormat /\ c_env \in Envs
    /\ c_methods = <<>> /\ c_i = 1 /\ c_attempts = <<>> /\ c_ret = None
    /\ c_dest = c_env.dest /\ c_calls = <<>>
    /\ c_files = InitialFiles(c_env.dest)
    /\ BatchIdle /\ GuiIdle /\ PixIdle

NextConv == ConvCall \/ ConvAttempt \/ ConvReturnFalse \/ ConvAgain

SpecConv == InitConv /\ [][NextConv]_vars

\* One job: a ConversionWorker as __init__ leaves it, for every output
\* format, with stop() free to run, over a source folder of up to MaxFiles
\* files that is or is not the target folder; the script, which converts
\* to JPG only and into another folder; or a SingleFileWorker.
InitBatch ==
    /\ FmtIdle /\ ConvIdle /\ GuiIdle /\ PixIdle
    /\ driver \in {"worker", "cli", "single"}
    /\ w_fmt \in (IF driver = "cli" THEN {"JPG"} ELSE OutputFormat)
    /\ same_dir \in (IF driver = "worker" THEN BOOLEAN ELSE {FALSE})
    /\ dir_files \in (IF driver = "single" THEN {0} ELSE 0..MaxFiles)
    /\ w_pc = "created" /\ is_running = TRUE /\ total_count = 0 /\ idx = 0
    /\ total_files = 0 /\ converted_files = 0 /\ failed_files = 0
    /\ events = <<>> /\ w_error = FALSE /\ stop_at = NotStopped

NextBatch ==
    \/ WorkerSetup \/ WorkerLoopHead \/ WorkerFile \/ WorkerSummary \/ Stop
    \/ SingleSetup \/ SingleConvert
    \/ CliSetup \/ CliEntry \/ CliSummary

SpecBatch == InitBatch /\ [][NextBatch]_vars

\* The main window after construction, the user clicking the two convert
\* buttons at will, at most MaxJobs jobs being started.
InitGui == FmtIdle /\ ConvIdle /\ BatchIdle /\ GuiIdle /\ PixIdle

NextGui ==
    \/ StartConversion \/ StartSingleConversion
    \/ ThreadEmitFinished \/ ThreadExit
    \/ ConversionFinished \/ SingleConversionFinished

SpecGui == InitGui /\ [][NextGui]_vars

\* One job from the click that starts it to the slot that handles its
\* completion signal: the thread the main window starts is the worker
\* whose run is followed step by step, a ConversionWorker over a folder of
\* up to MaxJobFiles files or a SingleFileWorker, for an output format with
\* three backends and for ICO; no other job is started meanwhile.
InitJob ==
    /\ FmtIdle /\ ConvIdle /\ GuiIdle /\ PixIdle
    /\ driver \in {"worker", "single"}
    /\ w_fmt \in {"JPG", "ICO"}
    /\ same_dir = FALSE
    /\ dir_files \in (IF driver = "single" THEN {0} ELSE 0..MaxJobFiles)
    /\ w_pc = "created" /\ is_running = TRUE /\ total_count = 0 /\ idx = 0
    /\ total_files = 0 /\ converted_files = 0 /\ failed_files = 0
    /\ events = <<>> /\ w_error = FALSE /\ stop_at = NotStopped

\* run() of the followed job has emitted its completion signal.
JobSignalled ==
    \E i \in DOMAIN events : events[i][1] \in {"finished", "single_finished"}

\* The thread of the followed job is executing run().
JobThreadRunning == g_threads[1].st = "running"

\* A click on the button of the followed job while no job has been
\* started: it starts the job, or ends in the message box of an input
\* that is not valid.
JobClick ==
    /\ g_worker = 0
    /\ \/ driver = "worker" /\ StartConversion
       \/ driver = "single" /\ StartSingleConversion

\* A step of run() in the thread of the followed job.
JobRun ==
    /\ JobThreadRunning
    /\ WorkerStep \/ SingleSetup \/ SingleConvert

\* stop() called while the followed job runs.
JobStop == JobThreadRunning /\ Stop

\* The completion signal the followed job's run() emitted is queued for the
\* GUI thread.
JobEmit ==
    /\ JobThreadRunning /\ JobSignalled
    /\ ThreadEmitFinished
    /\ g_threads'[1].st = "signalled"

NextJob ==
    \/ JobClick \/ JobRun \/ JobStop \/ JobEmit
    \/ ThreadExit \/ ConversionFinished \/ SingleConversionFinished

\* The worker threads are scheduled fairly and every step of run() returns;
\* the event loop of the GUI thread delivers every queued signal.
FairJob ==
    /\ WF_vars(JobRun) /\ WF_vars(JobEmit)
    /\ WF_vars(ThreadExit)
    /\ WF_vars(ConversionFinished) /\ WF_vars(SingleConversionFinished)

SpecJob == InitJob /\ [][NextJob]_vars /\ FairJob

\* The compositing of every 8-bit channel value under every 8-bit alpha.
InitPixel ==
    /\ FmtIdle /\ ConvIdle /\ BatchIdle /\ GuiIdle
    /\ px_pc = "input" /\ px_alpha \in Bytes /\ px_chan \in Bytes
    /\ px_val = 0 /\ px_out = 0

NextPixel == Flatten

SpecPixel == InitPixel /\ [][NextPixel]_vars

(***************************************************************************)
(* Properties of convert_single_image (SpecConv).                          *)
(***************************************************************************)
PriorityOrder == <<"Pillow", "OpenCV", "imageio">>

LastAttempt == c_attempts[Len(c_attempts)]

\* C1: for every output kind other than ICO the backends are attempted in
\* the order Pillow, OpenCV, imageio; a backend is attempted only after
\* every backend before it has failed, nothing is attempted after a
\* success, and the call returns only on a success or after all three.
C1_FixedOrderFirstSuccess ==
    c_fmt # "ICO" =>
        /\ Len(c_attempts) <= Len(PriorityOrder)
        /\ \A i \in DOMAIN c_attempts :
              /\ c_attempts[i].name = PriorityOrder[i]
              /\ (i < Len(c_attempts) => ~c_attempts[i].ret)
        /\ (c_attempts # <<>> /\ LastAttempt.ret) => c_pc = "returned"
        /\ c_pc = "returned" =>
              /\ c_attempts # <<>>
              /\ (LastAttempt.ret \/ Len(c_attempts) = Len(PriorityOrder))

\* C1 witness: a PNG conversion in which Pillow and OpenCV failed and
\* imageio, attempted third, succeeded.
C1_Witness ==
    /\ c_pc = "returned" /\ c_fmt = "PNG"
    /\ Len(c_attempts) = 3
    /\ ~c_attempts[1].ret /\ ~c_attempts[2].ret /\ c_attempts[3].ret

\* C2: the call returns (True, name) exactly when an attempted backend wrote
\* the destination without raising, name being the first such backend, and
\* (False, None) exactly when every attempted backend failed.
C2_TrueIffDestinationWritten ==
    c_pc = "returned" =>
        /\ c_ret[1] = (\E i \in DOMAIN c_attempts :
                          c_attempts[i].body = "True" /\ c_attempts[i].wrote)
        /\ c_ret[1] =>
              \E i \in DOMAIN c_attempts :
                  /\ c_attempts[i].name = c_ret[2]
                  /\ c_attempts[i].wrote
                  /\ \A j \in 1..(i - 1) : ~c_attempts[j].wrote
        /\ (c_ret = <<FALSE, None>>) = (\A i \in DOMAIN c_attempts : ~c_attempts[i].ret)

\* C3: with ICO as the output kind only Pillow is attempted, exactly once,
\* and a Pillow failure is the failure of the conversion.
C3_IcoOnlyPillow ==
    c_fmt = "ICO" =>
        /\ Len(c_attempts) <= 1
        /\ \A i \in DOMAIN c_attempts : c_attempts[i].name = "Pillow"
        /\ c_pc = "returned" =>
              /\ Len(c_attempts) = 1
              /\ (~c_attempts[1].ret => c_ret = <<FALSE, None>>)
              /\ (c_attempts[1].ret => c_ret = <<TRUE, "Pillow">>)

\* C3 witness: an ICO conversion that failed after the one Pillow attempt.
C3_Witness ==
    /\ c_pc = "returned" /\ c_fmt = "ICO"
    /\ Len(c_attempts) = 1 /\ ~c_attempts[1].ret
    /\ c_ret = <<FALSE, None>>

\* C4: no exception leaves convert_single_image; a backend whose try block
\* raised counts as failed; and after a failed backend that is not the
\* last of `methods` the next backend is attempted (it has been, or the
\* loop is about to).
C4_FailuresIsolated ==
    /\ c_pc # "escaped"
    /\ \A i \in DOMAIN c_attempts :
          /\ (c_attempts[i].body = "raise" => ~c_attempts[i].ret)
          /\ (~c_attempts[i].ret /\ i < Len(c_methods)) =>
                \/ i < Len(c_attempts)
                \/ (c_pc = "loop" /\ c_i = i + 1)

\* C4 witness: Pillow raised, OpenCV raised, and imageio was still attempted
\* and succeeded.
C4_Witness ==
    /\ c_pc = "returned"
    /\ Len(c_attempts) = 3
    /\ c_attempts[1].body = "raise" /\ c_attempts[2].body = "raise"
    /\ c_attempts[3].ret
    /\ c_ret = <<TRUE, "imageio">>

\* The destination path when the call in progress (or just returned) began.
DestBefore ==
    LET done == IF c_pc = "returned" THEN Len(c_calls) - 1 ELSE Len(c_calls)
    IN IF done = 0 THEN c_env.dest ELSE c_calls[done].dest

\* A backend returned True and wrote the destination.
WriterWrote == c_pc = "returned" /\ c_ret[1] /\ LastAttempt.wrote

\* The backend that wrote the destination decoded the source with an alpha
\* channel.
WriterSawAlpha ==
    CASE c_ret[2] = "Pillow"  -> pil_has_alpha(c_env.pil)
      [] c_ret[2] = "OpenCV"  -> c_env.cv = "bgra"
      [] c_ret[2] = "imageio" -> c_env.iio \in {"rgba", "la"}

\* C14: whenever a conversion of a source with an alpha channel to JPG,
\* JPEG or BMP succeeds, the backend that wrote the destination composited
\* the image over white first and the destination has no alpha channel,
\* whichever backend wrote it.
C14_AlphaFlattenedForOpaqueKinds ==
    (WriterWrote /\ c_fmt \in {"JPG", "JPEG", "BMP"} /\ WriterSawAlpha) =>
        (LastAttempt.flat /\ ~LastAttempt.alpha)

\* C17 as stated: a conversion whose every backend failed leaves the
\* destination path as it was (no file created, a file that was there
\* unchanged), and after any conversion the destination is either as it
\* was or the file the succeeding backend wrote in full.
C17_FailureLeavesDestination ==
    c_pc = "returned" =>
        /\ ~c_ret[1] => c_dest = DestBefore
        /\ c_dest = DestBefore \/ (c_ret[1] /\ c_dest = c_ret[2])

\* C17 as amended: a conversion whose every backend failed before it
\* began to encode (the source was not decoded, the kind is not one the
\* backend writes, or the destination could not be opened) leaves the
\* destination path as it was, and a backend that returned True and wrote
\* leaves the file it wrote in full.
C17_EarlyFailureLeavesDestination ==
    c_pc = "returned" =>
        /\ (~c_ret[1] /\ \A i \in DOMAIN c_attempts :
                             c_attempts[i].stage \in {"decode", "unsupported", "open"})
              => c_dest = DestBefore
        /\ WriterWrote => c_dest = c_ret[2]

\* C17 witness: all three backends failed to decode the source and the
\* file that was at the destination is still there.
C17_Witness ==
    /\ c_pc = "returned" /\ c_ret = <<FALSE, None>>
    /\ Len(c_attempts) = 3
    /\ \A i \in DOMAIN c_attempts : c_attempts[i].stage = "decode"
    /\ DestBefore = "old" /\ c_dest = "old"

\* C18: a conversion repeated on the same source and target kind succeeds
\* or fails as the first did and changes the tally as the first did,
\* whatever the first left at the destination; the outcome of a call is
\* the same for an absent and for an existing destination, so that an
\* existing destination is never a reason to refuse.
C18_RepeatedConversionSameOutcome ==
    /\ \A k \in DOMAIN c_calls :
          /\ c_calls[k].ret[1] = c_calls[1].ret[1]
          /\ count_outcome(c_calls[k].ret[1], 0, 0)
                = count_outcome(c_calls[1].ret[1], 0, 0)
    /\ \A d \in DestStates :
          convert_single_image(c_fmt, env_at(c_env, d)).ret[1]
            = convert_single_image(c_fmt, env_at(c_env, "absent")).ret[1]

\* C18 witness: the first call wrote the destination, which was absent,
\* with Pillow, and the second call overwrote it with Pillow.
C18_Witness ==
    /\ c_pc = "returned" /\ Len(c_calls) = 2
    /\ c_env.dest = "absent"
    /\ c_calls[1] = [ret |-> <<TRUE, "Pillow">>, dest |-> "Pillow"]
    /\ c_calls[2] = [ret |-> <<TRUE, "Pillow">>, dest |-> "Pillow"]
    /\ c_attempts[1].before = "Pillow" /\ c_attempts[1].wrote

\* C19: convert_with_imageio returns False for BMP, TIFF and ICO, and
\* convert_with_opencv for ICO, in every environment, as they do for a
\* source they cannot decode, and write nothing; an imageio attempt for
\* BMP or TIFF is a failed attempt that leaves the destination as it was
\* (with a readable source it ends in the final else, by `return False`);
\* so a BMP or TIFF conversion succeeds exactly when the Pillow or the
\* OpenCV attempt succeeded.
C19_UnsupportedKindIsFailure ==
    LET env == env_at(c_env, c_dest)
        Fails(r) == r.out = "False" /\ ~r.wrote /\ r.touch = "none"
    IN /\ \A f \in {"BMP", "TIFF", "ICO"} : Fails(convert_with_imageio(f, env))
       /\ Fails(convert_with_opencv("ICO", env))
       /\ \A i \in DOMAIN c_attempts :
             (c_attempts[i].name = "imageio" /\ c_fmt \in {"BMP", "TIFF"}) =>
                 /\ ~c_attempts[i].ret /\ ~c_attempts[i].wrote
                 /\ c_env.decodes["imageio"] =>
                       /\ c_attempts[i].stage = "unsupported"
                       /\ c_attempts[i].body = "False"
                 /\ c_dest = c_attempts[i].before
       /\ (c_pc = "returned" /\ c_fmt \in {"BMP", "TIFF"}) =>
             c_ret[1] = (\E i \in DOMAIN c_attempts :
                            /\ c_attempts[i].name \in {"Pillow", "OpenCV"}
                            /\ c_attempts[i].ret)

\* C19 witness: a BMP conversion in which Pillow and OpenCV failed and
\* imageio, which could read the source and write files, returned False.
C19_Witness ==
    /\ c_pc = "returned" /\ c_fmt = "BMP" /\ c_ret = <<FALSE, None>>
    /\ Len(c_attempts) = 3 /\ c_attempts[3].name = "imageio"
    /\ c_attempts[3].stage = "unsupported"
    /\ c_env.decodes["imageio"] /\ c_env.encodes["imageio"] /\ c_env.destWritable

\* C22: a conversion changes no path but its destination path: the source
\* file is as it was, a file elsewhere is neither modified nor deleted, no
\* file is created elsewhere, and what is at the destination path is what
\* the backends left there.
C22_OnlyDestinationWritten ==
    /\ c_files["source"] = "old"
    /\ c_files["other"] = "old"
    /\ c_files["unused"] = "absent"
    /\ c_files["target"] = c_dest

\* C22 witness: Pillow failed after opening an existing destination and
\* OpenCV then wrote it; the other paths are as they were.
C22_Witness ==
    /\ c_pc = "returned" /\ c_ret = <<TRUE, "OpenCV">> /\ LastAttempt.wrote
    /\ c_attempts[1].stage = "encode" /\ c_attempts[2].before = "truncated"
    /\ c_files = [InitialFiles("old") EXCEPT !["target"] = "OpenCV"]

(***************************************************************************)
(* Properties of the format resolver (SpecFormat).                         *)
(***************************************************************************)
\* C5: from_string returns, for every token, a member of OutputFormat: the
\* member whose name the token spells in any mix of cases, and JPG for a
\* token that spells no name.
C5_FromStringCaseInsensitiveTotal ==
    f_pc # "input" =>
        /\ f_kind \in OutputFormat
        /\ \A k \in OutputFormat :
              f_token \in Spellings(NameOf(k)) => f_kind = k
        /\ (\A k \in OutputFormat : f_token \notin Spellings(NameOf(k)))
              => f_kind = "JPG"

\* C5 witness: the token "WeBp" resolved to WEBP.
C5_Witness ==
    /\ f_pc = "resolved"
    /\ f_token = <<"W", "e", "B", "p">>
    /\ f_kind = "WEBP"

\* C6: get_extension returns ".jpg" for JPG and for JPEG, and ".png",
\* ".ico", ".webp", ".bmp", ".tiff" for PNG, ICO, WEBP, BMP, TIFF.
C6_CanonicalExtension ==
    f_pc = "ext" =>
        /\ (f_kind \in {"JPG", "JPEG"} => f_ext = ".jpg")
        /\ (f_kind = "PNG"  => f_ext = ".png")
        /\ (f_kind = "ICO"  => f_ext = ".ico")
        /\ (f_kind = "WEBP" => f_ext = ".webp")
        /\ (f_kind = "BMP"  => f_ext = ".bmp")
        /\ (f_kind = "TIFF" => f_ext = ".tiff")

\* C6 witness: the extension of JPEG was taken and is ".jpg".
C6_Witness == f_pc = "ext" /\ f_kind = "JPEG" /\ f_ext = ".jpg"

(***************************************************************************)
(* Properties of a batch job (SpecBatch).                                  *)
(***************************************************************************)
EventSet == {events[i] : i \in DOMAIN events}

\* The counters are between two files, or the job ended without an error.
BetweenFiles == w_pc \in {"check", "summary"} \/ (w_pc = "done" /\ ~w_error)

\* C7 as stated: total = converted + failed for the counters after each
\* file, and for the three numbers of every completion signal, errors
\* included.
C7_TallyAlways ==
    /\ BetweenFiles => total_files = converted_files + failed_files
    /\ \A i \in DOMAIN events :
          events[i][1] = "finished" => events[i][2] = events[i][3] + events[i][4]

\* C7 as amended: total = converted + failed for the counters after each
\* file and for every completion signal of a job that ended without an
\* exception; the one other completion signal is (0, 0, -1), emitted by the
\* except clause of run.
C7_TallyExceptErrorSignal ==
    /\ BetweenFiles => total_files = converted_files + failed_files
    /\ \A i \in DOMAIN events :
          events[i][1] = "finished" =>
              IF w_error THEN events[i] = ErrorSignal
              ELSE /\ events[i][2] = events[i][3] + events[i][4]
                   /\ events[i][3] >= 0 /\ events[i][4] >= 0

\* C7 witness: a worker that processed three files, two converted and one
\* failed, and reported (3, 2, 1).
C7_Witness ==
    /\ driver = "worker" /\ w_pc = "done" /\ ~w_error
    /\ Finished(3, 2, 1) \in EventSet

\* C8: from the first stop() on no further loop iteration begins, the file
\* whose iteration had begun is still converted and counted, and the total
\* of the final tally is the number of files whose iteration had begun when
\* stop() ran.  (A file's conversion counts as started once its iteration
\* has passed the test of the flag.)
C8_CancelBetweenFiles ==
    (driver = "worker" /\ stop_at.called) =>
        /\ idx = stop_at.idx
        /\ total_files = stop_at.idx
        /\ BetweenFiles => converted_files + failed_files = stop_at.idx
        /\ ~w_error =>
              \A i \in DOMAIN events :
                  events[i][1] = "finished" => events[i][2] = stop_at.idx

\* C8 witness: stop() ran while the second of three files was being
\* converted; that file was counted and the third never begun.
C8_Witness ==
    /\ driver = "worker" /\ w_pc = "done" /\ ~w_error
    /\ stop_at.called /\ stop_at.pc = "file" /\ stop_at.idx = 2
    /\ total_count = 3
    /\ Finished(2, 1, 1) \in EventSet

CancelledAt == {i \in DOMAIN events : events[i] = Log("cancelled")}

\* C9: the "cancelled" line is emitted at most once, and only for a job
\* stopped with a file left; a job stopped with a file left that ends with
\* a tally has emitted it exactly once, right after the result line and
\* progress signal of the last processed file, after every per-file event
\* and before the summary and the completion signal.
C9_CancelledLineOnce ==
    /\ Cardinality(CancelledAt) <= 1
    /\ CancelledAt # {} => (stop_at.called /\ stop_at.idx < total_count)
    /\ (driver = "worker" /\ w_pc = "done" /\ ~w_error
            /\ stop_at.called /\ stop_at.idx < total_count) =>
          \E p \in DOMAIN events :
              /\ CancelledAt = {p}
              /\ \A i \in DOMAIN events :
                    /\ events[i][1] \in {"header", "mkdir", "overwrite", "unknown",
                                         "ok", "fail", "progress"} => i < p
                    /\ events[i][1] \in {"summary", "rate", "finished"} => i > p
              /\ stop_at.idx > 0 =>
                    /\ events[p - 1] = Progress(stop_at.idx, total_count)
                    /\ events[p - 2][1] \in {"ok", "fail"}

\* C9 witness: a job of three files stopped between the second and the
\* third, ended with the "cancelled" line in its log.
C9_Witness ==
    /\ driver = "worker" /\ w_pc = "done" /\ ~w_error
    /\ stop_at.called /\ stop_at.pc = "check" /\ stop_at.idx = 2
    /\ total_count = 3
    /\ Log("cancelled") \in EventSet

FinishedAt == {i \in DOMAIN events : events[i][1] = "finished"}

SingleFinishedAt == {i \in DOMAIN events : events[i][1] = "single_finished"}

ProgressAt == {i \in DOMAIN events : events[i][1] = "progress"}

\* C12: a batch worker whose run caught an exception has ended with the
\* completion signal (0, 0, -1) as its one completion signal, whatever the
\* counters held when the exception was raised; and a completion signal
\* with failed = -1 is (0, 0, -1) and is emitted by the except clause only:
\* every other completion signal has failed >= 0.
C12_ErrorSignalIffException ==
    driver = "worker" =>
        /\ w_error =>
              /\ w_pc = "done"
              /\ events[Len(events)] = ErrorSignal
              /\ FinishedAt = {Len(events)}
        /\ \A i \in FinishedAt :
              /\ (events[i][4] = -1 => (w_error /\ events[i] = ErrorSignal))
              /\ (~w_error => events[i][4] >= 0)

\* C12 witness: the exception was raised at the second file, after the
\* first had been converted and counted, and (0, 0, -1) was emitted.
C12_Witness ==
    /\ driver = "worker" /\ w_error /\ w_pc = "done"
    /\ total_files = 2 /\ converted_files = 1 /\ failed_files = 0
    /\ events[Len(events)] = ErrorSignal

\* A step of the worker that handles one file to the end.
FileCounted == driver = "worker" /\ w_pc = "file" /\ w_pc' = "check"

\* C13: every file a batch worker processes changes exactly one of
\* converted_files and failed_files, by one, and nothing else changes
\* them; a batch job has emitted no completion signal until it ends and
\* exactly one when it has ended; a single-file job has emitted no
\* (succeeded, message) signal until it ends and exactly one when it has
\* ended, on the normal path and on the exception path.
C13_OneOutcomePerRequest ==
    /\ [][/\ (FileCounted =>
               \/ /\ converted_files' = converted_files + 1
                  /\ failed_files' = failed_files
               \/ /\ converted_files' = converted_files
                  /\ failed_files' = failed_files + 1)
           /\ ((driver = "worker" /\ ~FileCounted) =>
               UNCHANGED <<converted_files, failed_files>>)]_vars
    /\ [](driver = "worker" =>
              Cardinality(FinishedAt) = IF w_pc = "done" THEN 1 ELSE 0)
    /\ [](driver = "single" =>
              Cardinality(SingleFinishedAt) = IF w_pc = "done" THEN 1 ELSE 0)

\* C13 witness: a single-file job whose mkdir raised has ended with its one
\* completion signal, (False, message).
C13_Witness ==
    /\ driver = "single" /\ w_pc = "done" /\ w_error
    /\ SingleFinishedAt = {Len(events)}
    /\ events[Len(events)][2] = "False"

\* C16: the k-th progress notification of a batch over N files is (k, N),
\* it follows the result line of the k-th file, k never exceeds N, the
\* number of notifications is converted_files + failed_files at every
\* moment, and none follows the "cancelled" line.
C16_ProgressCountsFiles ==
    driver = "worker" =>
        /\ Cardinality(ProgressAt) = converted_files + failed_files
        /\ Cardinality(ProgressAt) <= total_count
        /\ \A i \in ProgressAt :
              LET k == Cardinality({j \in ProgressAt : j <= i})
              IN /\ events[i] = <<"progress", k, total_count>>
                 /\ events[i - 1][1] \in {"ok", "fail"}
        /\ \A p \in CancelledAt : \A i \in ProgressAt : i < p

\* C16 witness: a job over three files, stopped after the second: two
\* notifications, the last one (2, 3), and none for the third file.
C16_Witness ==
    /\ driver = "worker" /\ w_pc = "done" /\ ~w_error
    /\ total_count = 3 /\ stop_at.called
    /\ Cardinality(ProgressAt) = 2
    /\ <<"progress", 2, 3>> \in EventSet
    /\ Log("cancelled") \in EventSet

\* The steps run has left at most: two for each file not yet begun.
StepsLeft ==
    CASE w_pc = "created" -> 2 * dir_files + 3
      [] w_pc = "check"   -> 2 * (total_count - idx) + 2
      [] w_pc = "file"    -> 2 * (total_count - idx) + 3
      [] w_pc = "summary" -> 1
      [] w_pc = "done"    -> 0

\* C20: the list of files is fixed before the first conversion: the number
\* of iterations begun never exceeds the number of files listed, which
\* stays what it was while the folder grows by the files the job writes
\* into it; every file is the element of one iteration only (idx counts
\* up by one); and the job terminates: run can take a step until it has
\* ended, and every step of run lowers the number of steps left, which is
\* never negative.
C20_ListFixedBeforeLoop ==
    /\ [](driver = "worker" =>
              /\ idx <= total_count /\ total_files <= total_count
              /\ Cardinality(ProgressAt) <= total_count
              /\ total_count <= dir_files
              /\ StepsLeft >= 0
              /\ (w_pc # "done" => ENABLED WorkerStep))
    /\ [][driver = "worker" =>
              /\ (w_pc # "created" => total_count' = total_count)
              /\ idx' \in {idx, idx + 1}
              /\ ((w_pc' # w_pc \/ idx' # idx) => StepsLeft' < StepsLeft)]_vars

\* C20 witness: a job whose target folder is its source folder listed two
\* files, wrote two new files beside them, and ended after two files.
C20_Witness ==
    /\ driver = "worker" /\ w_pc = "done" /\ ~w_error /\ same_dir
    /\ total_count = 2 /\ dir_files = 4
    /\ total_files = 2 /\ converted_files = 2
    /\ \A i \in DOMAIN events : events[i][1] = "finished" => events[i][2] = 2

(***************************************************************************)
(* Properties of the main window's job control (SpecGui).                  *)
(***************************************************************************)
RunningThreads == {j \in DOMAIN g_threads : isRunning(j)}

\* C10: at any time at most one conversion job, batch or single-file, is
\* executing: no worker thread is started while another is still running.
C10_AtMostOneJobRunning == Cardinality(RunningThreads) <= 1

\* A batch worker's thread has been started and has not ended.
BatchRunning ==
    \E j \in DOMAIN g_threads : g_threads[j].kind = "batch" /\ isRunning(j)

\* C11: a call of start_conversion made while a batch worker is running
\* starts no worker and leaves the threads, self.worker and both buttons
\* as they were.
C11_BusyBatchRejectsStart ==
    [][(StartConversion /\ BatchRunning) =>
          UNCHANGED <<g_threads, g_worker, convert_btn, single_convert_btn>>]_vars

(***************************************************************************)
(* Properties of the compositing over white (SpecPixel).                   *)
(***************************************************************************)
\* C15: for every alpha and channel value in 0..255 the value stored is
\* 255 when alpha is 0 and the channel value when alpha is 255, and the
\* value computed lies in 0..255, so that the store into the 8-bit
\* channel keeps it as it is.
C15_BlendStaysInByte ==
    px_pc = "stored" =>
        /\ (px_alpha = 0 => px_out = 255)
        /\ (px_alpha = 255 => px_out = px_chan)
        /\ px_val >= 0 /\ px_val <= 255
        /\ px_out = px_val

\* C15 witness: the channel value 100 under alpha 128 was stored as 177.
C15_Witness ==
    /\ px_pc = "stored" /\ px_alpha = 128 /\ px_chan = 100
    /\ px_val = 177 /\ px_out = 177

(***************************************************************************)
(* Properties of one job from click to handled signal (SpecJob).           *)
(***************************************************************************)
\* The completion signal of the followed job waits in the queue of the GUI
\* thread.
JobInQueue == \E i \in DOMAIN g_queue : g_queue[i] = 1

\* The completion signal of the followed job has been handled by its slot.
JobHandled == g_threads[1].st \in {"signalled", "finished"} /\ ~JobInQueue

\* The button start_conversion or start_single_conversion disabled.
JobButton == IF driver = "worker" THEN convert_btn ELSE single_convert_btn

\* The step that starts the followed job, and the step of the slot that
\* handles its completion signal.
StartJob == g_threads[1].st = "unborn" /\ g_threads'[1].st = "running"
HandleJob == JobInQueue /\ ~JobInQueue'

\* C21: the job that is started disables its button; its run() comes to
\* emit the completion signal, on the success, failure, cancellation and
\* exception paths; the signal is handled; and the step that handles it
\* enables the button again.
C21_JobCompletesAndButtonReenabled ==
    /\ [][StartJob => ~JobButton']_vars
    /\ (JobThreadRunning ~> (JobSignalled /\ JobInQueue))
    /\ (JobThreadRunning ~> JobHandled)
    /\ [][HandleJob => JobButton']_vars

\* C21 witness: a batch job that caught an exception emitted (0, 0, -1);
\* the signal has been handled and the batch button is enabled again.
C21_Witness ==
    /\ driver = "worker" /\ w_error /\ ErrorSignal \in EventSet
    /\ JobHandled /\ convert_btn

====
